---------------------------- MODULE Spec2Model ----------------------------
(***************************************************************************)
(* Model of CarSocketService (the reconnecting car-control WebSocket       *)
(* channel) of the IOT front end.                                          *)
(*                                                                         *)
(* The channel runs on one event loop: every public method and every       *)
(* socket/timer callback runs to completion, so each is one action.        *)
(* The platform WebSocket is modelled after the WHATWG WebSocket           *)
(* interface: close() moves a CONNECTING or OPEN socket to CLOSING at once *)
(* and its close event is delivered later, as a separate task, with a      *)
(* close code chosen by the environment.                                   *)
(*                                                                         *)
(* Strings are sequences of tokens, so that startsWith, endsWith, replace  *)
(* and concatenation are computed and not assumed.                         *)
(***************************************************************************)
EXTENDS Integers, Sequences, FiniteSets, TLC

VARIABLES
    socket,             \* this.socket: 0 (null) or the id of a socket object
    ws,                 \* the socket objects: id -> readyState ("NONE": no such object)
    reconnectAttempts,  \* this.reconnectAttempts
    reconnectTimeout,   \* this.reconnectTimeout: 0 (null) or a timer handle
    timers,             \* the event loop's pending timers (handles)
    wsUrl,              \* this.wsUrl
    listeners,          \* this.listeners: event name -> sequence of callbacks
    op,                 \* what the last handler did, as its caller and its peers see it
    backendUrl,         \* the application's backend URL setting, given to connect
    scheduledInRow,     \* history: reconnects scheduled since the last open, disconnect or reset
    manual,             \* history: disconnect() was called and connect() not yet again
    exhausted,          \* history: the terminal error was emitted and connect() not yet called again
    refill,             \* history: "reset" right after resetReconnectAttempts() while exhausted,
                        \* "connect" once connect() is the next call and until an open or a
                        \* disconnect, "again" right after the terminal error that ends it
                        \* "retry" right after a connect() while exhausted with no reset before
                        \* it, "denied" when the next handler emits the terminal error
    watch,              \* history: whether this run records exhausted and refill
    screen,             \* the Index screen: its React state for the car, and its history
    settings,           \* the CameraProvider's state besides backendUrl, its storage and the
                        \* storage writes in flight, the settings modal, and history
    api                 \* a run of carApi.sendCommandSequence and the log of what it did

vars == <<socket, ws, reconnectAttempts, reconnectTimeout, timers, wsUrl,
          listeners, op, backendUrl, scheduledInRow, manual, exhausted,
          refill, watch, screen, settings, api>>

\* everything but the settings and the REST client
device == <<socket, ws, reconnectAttempts, reconnectTimeout, timers, wsUrl,
            listeners, op, scheduledInRow, manual, exhausted, refill, watch, screen>>

chan == <<socket, ws, reconnectAttempts, reconnectTimeout, timers, wsUrl, listeners>>

-----------------------------------------------------------------------------
(* Bounds of the model *)

MaxSockets == 2      \* socket objects alive at once (owned + superseded ones not yet closed)
MaxTimers == 2       \* timer handles alive at once
MaxHandlers == 1     \* callbacks registered per event name
MaxRegistered == 3   \* the same, where the subscriptions themselves are studied

(* Program constants *)

maxReconnectAttempts == 5
NORMAL_CLOSURE == 1000
DEFAULT_SPEED == 200
MAX_SPEED == 255         \* Speed Range: 0-255
INITIAL_SPEED == 200     \* useState(200)
SPEED_STEP == 25         \* the - and + buttons

-----------------------------------------------------------------------------
(* Strings as token sequences *)

startsWith(s, prefix) == Len(s) >= 1 /\ s[1] = prefix

endsWith(s, suffix) == Len(s) >= 1 /\ s[Len(s)] = suffix

\* String.prototype.replace(a, b) with a string pattern: the first occurrence only
replace(s, a, b) ==
    IF \E i \in 1..Len(s) : s[i] = a
    THEN LET first == CHOOSE i \in 1..Len(s) : s[i] = a /\ \A j \in 1..(i-1) : s[j] # a
         IN  [i \in 1..Len(s) |-> IF i = first THEN b ELSE s[i]]
    ELSE s

-----------------------------------------------------------------------------
(* new URL(backendUrl), its protocol and its host *)

SpecialSchemes == {"http://", "https://", "ws://", "wss://"}
NumericHosts == {"192.168.0.115"}
NamedHosts == {"localhost"}
Hosts == NumericHosts \cup NamedHosts
Ports == {"3000", "80", "443"}
Paths == {"/ws", "/api"}

DefaultPort(scheme) ==
    IF scheme \in {"http://", "ws://"} THEN "80" ELSE "443"

\* The URL record of a string, or ok = FALSE where the constructor throws.
\*  - scheme://host[:port][/path]: host is hostname[:port], the port left out
\*    when it is the scheme's default;
\*  - name:rest (no "//"): "name" is read as a scheme and the host is empty;
\*  - anything else has no scheme and, with no base, is not a URL.
ParseURL(s) ==
    IF Len(s) >= 2 /\ s[1] \in SpecialSchemes /\ s[2] \in Hosts
    THEN LET hasPort == Len(s) >= 4 /\ s[3] = ":" /\ s[4] \in Ports
             keepPort == hasPort /\ s[4] # DefaultPort(s[1])
         IN  [ok |-> TRUE,
              protocol |-> s[1],
              host |-> IF keepPort THEN <<s[2], ":", s[4]>> ELSE <<s[2]>>]
    ELSE IF Len(s) >= 2 /\ s[1] \in NamedHosts /\ s[2] = ":"
    THEN [ok |-> TRUE, protocol |-> s[1], host |-> <<>>]
    ELSE [ok |-> FALSE, protocol |-> "", host |-> <<>>]

\* urlWorks: the platform has a working URL class (FALSE: its constructor or its
\* getters throw, which the catch handles)
convertToWebSocketUrl(input, urlWorks) ==
    LET u == ParseURL(input) IN
    IF urlWorks /\ u.ok
    THEN LET protocol == IF u.protocol = "https://" THEN "wss://" ELSE "ws://"
         IN  <<protocol>> \o u.host \o <<"/ws">>
    ELSE IF startsWith(input, "http://")
    THEN replace(input, "http://", "ws://") \o <<"/ws">>
    ELSE IF startsWith(input, "https://")
    THEN replace(input, "https://", "wss://") \o <<"/ws">>
    ELSE IF startsWith(input, "ws://") \/ startsWith(input, "wss://")
    THEN IF endsWith(input, "/ws") THEN input ELSE input \o <<"/ws">>
    ELSE <<"ws://">> \o input \o <<"/ws">>

-----------------------------------------------------------------------------
(* JSON text frames *)

\* An object with the given key/value tokens, serialised
Stringify(kv) == <<"{">> \o kv \o <<"}">>

\* JSON.parse: ok = FALSE where it throws; "null" parses to null, which is no object
JSONParse(text) ==
    IF text = <<"null">>
    THEN [ok |-> TRUE, isObject |-> FALSE, kv |-> <<>>]
    ELSE IF Len(text) >= 2 /\ text[1] = "{" /\ text[Len(text)] = "}"
            /\ (Len(text) - 2) % 2 = 0
    THEN [ok |-> TRUE, isObject |-> TRUE, kv |-> SubSeq(text, 2, Len(text) - 1)]
    ELSE [ok |-> FALSE, isObject |-> FALSE, kv |-> <<>>]

\* message.key: the value of the last such key, "undefined" when absent
Field(kv, key) ==
    LET at == {i \in 1..(Len(kv) \div 2) : kv[2*i - 1] = key} IN
    IF at = {} THEN "undefined"
    ELSE kv[2 * (CHOOSE i \in at : \A j \in at : j <= i)]

-----------------------------------------------------------------------------
(* The channel's state as one value, threaded through the private methods *)

EventNames == {"connected", "status", "acknowledgment", "device_connected",
               "device_disconnected", "error"}
Handlers == {"h1"}
Throwing == {"hx"}                            \* callbacks that throw when called
SubscribedEvents == {"connected", "error"}   \* the event names callers subscribe to
Commands == {"forward", "backward", "left", "right", "stop"}
PressedCommands == {"forward", "stop"}        \* the commands the callers of a run send
Speeds == {255}
CloseCodes == {NORMAL_CLOSURE, 1006}
SocketIds == 1..MaxSockets
TimerIds == 1..MaxTimers
MaxError == <<"Max reconnection attempts reached">>

\* The state a handler starts from. op records the handler: its name, its argument
\* (a URL, a frame), the close code of a close event (0: none), what it returned,
\* wrote to the wire, emitted and delivered to callbacks, the sockets it created
\* and closed, whether it scheduled a reconnect, whether it threw, the value of
\* reconnectAttempts and the pending timers it started with, and the order of
\* its emits (by event name) and its setTimeout.
Begin(name, arg, code) ==
    [socket |-> socket, ws |-> ws, attempts |-> reconnectAttempts,
     timeout |-> reconnectTimeout, timers |-> timers,
     op |-> [name |-> name, arg |-> arg, code |-> code, ret |-> "void",
             wire |-> <<>>, emitted |-> <<>>, delivered |-> <<>>,
             created |-> 0, closes |-> 0, scheduled |-> FALSE, threw |-> FALSE,
             before |-> reconnectAttempts, pending |-> timers, order |-> <<>>]]

\* emit(event, data): every callback of the event, in list order
\* forEach stops at the first callback that throws, and emit throws with it
emit(S, event, data) ==
    LET callbacks == listeners[event]
        bad == {i \in 1..Len(callbacks) : callbacks[i] \in Throwing}
        last == IF bad = {} THEN Len(callbacks)
                ELSE CHOOSE i \in bad : \A j \in bad : i <= j
    IN  [S EXCEPT !.op.emitted = Append(@, <<event, data>>),
                  !.op.order = Append(@, event),
                  !.op.delivered = @ \o [i \in 1..last |-> <<callbacks[i], event, data>>],
                  !.op.threw = (bad # {})]

\* socket.close(): CONNECTING and OPEN become CLOSING; the close event comes later
CloseCall(state) == IF state \in {"CONNECTING", "OPEN"} THEN "CLOSING" ELSE state

\* a socket object nothing refers to and that has no event left is forgotten
Unreferenced(state) == IF state = "CLOSED" THEN "NONE" ELSE state

FreeSockets(w) == {i \in SocketIds : w[i] = "NONE"}
NewSocket(w) == CHOOSE i \in FreeSockets(w) : \A j \in FreeSockets(w) : i <= j

FreeTimers(tm) == TimerIds \ tm
NewTimer(tm) == CHOOSE t \in FreeTimers(tm) : \A u \in FreeTimers(tm) : t <= u

clearTimeout(tm, handle) == tm \ {handle}

\* a bug: > for >= lets a sixth attempt through
scheduleReconnect_OffByOne(S) ==
    IF S.attempts > maxReconnectAttempts
    THEN emit(S, "error", MaxError)
    ELSE LET cleared == IF S.timeout # 0 THEN clearTimeout(S.timers, S.timeout)
                        ELSE S.timers
             t == NewTimer(cleared)
         IN  [S EXCEPT !.attempts = @ + 1,
                       !.timers = cleared \cup {t},
                       !.timeout = t,
                       !.op.scheduled = TRUE,
                       !.op.order = Append(@, "setTimeout")]

\* a bug: the pending timer is not cleared before the new one is set
scheduleReconnect_NoClear(S) ==
    IF S.attempts >= maxReconnectAttempts
    THEN emit(S, "error", MaxError)
    ELSE LET t == IF FreeTimers(S.timers) = {} THEN S.timeout ELSE NewTimer(S.timers)
         IN  [S EXCEPT !.attempts = @ + 1,
                       !.timers = @ \cup {t},
                       !.timeout = t,
                       !.op.scheduled = TRUE,
                       !.op.order = Append(@, "setTimeout")]

scheduleReconnect(S) ==
    IF S.attempts >= maxReconnectAttempts
    THEN emit(S, "error", MaxError)
    ELSE LET cleared == IF S.timeout # 0 THEN clearTimeout(S.timers, S.timeout)
                        ELSE S.timers
             t == NewTimer(cleared)
         IN  [S EXCEPT !.attempts = @ + 1,
                       !.timers = cleared \cup {t},
                       !.timeout = t,
                       !.op.scheduled = TRUE,
                       !.op.order = Append(@, "setTimeout")]

\* a bug: the existing socket is dropped but not closed
closeExisting_DropOnly(S) ==
    IF S.socket # 0
    THEN [S EXCEPT !.ws[S.socket] = Unreferenced(@), !.socket = 0]
    ELSE S

\* lines 72-76: close and drop the existing socket
closeExisting(S) ==
    IF S.socket # 0
    THEN [S EXCEPT !.ws[S.socket] = Unreferenced(CloseCall(@)),
                   !.socket = 0,
                   !.op.closes = @ + 1]
    ELSE S

\* a bug: the catch reports the error but schedules no reconnect
connectWebSocket_NoReschedule(S, constructThrows) ==
    LET S1 == closeExisting(S) IN
    IF constructThrows
    THEN emit(S1, "error", <<"construct failed">>)
    ELSE LET id == NewSocket(S1.ws)
         IN  [S1 EXCEPT !.ws[id] = "CONNECTING",
                        !.socket = id,
                        !.op.created = @ + 1]

\* constructThrows: new WebSocket(wsUrl) throws
connectWebSocket(S, constructThrows) ==
    LET S1 == closeExisting(S) IN
    IF constructThrows
    THEN LET S2 == emit(S1, "error", <<"construct failed">>)
         IN  IF S2.op.threw THEN S2 ELSE scheduleReconnect(S2)
    ELSE LET id == NewSocket(S1.ws)
         IN  [S1 EXCEPT !.ws[id] = "CONNECTING",
                        !.socket = id,
                        !.op.created = @ + 1]

\* a bug: any socket counts as connected, whatever its readyState
isConnected_AnySocket(S) == S.socket # 0

isConnected(S) == S.socket # 0 /\ S.ws[S.socket] = "OPEN"

\* a bug: the open handler leaves reconnectAttempts as it is
onopen_NoReset(S) ==
    LET S2 == IF S.timeout # 0
              THEN [S EXCEPT !.timers = clearTimeout(@, S.timeout), !.timeout = 0]
              ELSE S
    IN  emit(S2, "connected", <<"true">>)

\* a bug: the open handler leaves the pending reconnect timer running
onopen_NoClear(S) ==
    emit([S EXCEPT !.attempts = 0], "connected", <<"true">>)

onopen(S) ==
    LET S1 == [S EXCEPT !.attempts = 0]
        S2 == IF S1.timeout # 0
              THEN [S1 EXCEPT !.timers = clearTimeout(@, S1.timeout), !.timeout = 0]
              ELSE S1
    IN  emit(S2, "connected", <<"true">>)

\* a bug: a missing break lets car_connected fall through to car_disconnected
dispatch_Fallthrough(S, kv) ==
    LET type == Field(kv, "type") IN
    CASE type = "car_status" ->
            emit(S, "status", <<Field(kv, "data")>>)
      [] type = "car_ack" ->
            emit(S, "acknowledgment",
                 <<"command", Field(kv, "command"), "status", Field(kv, "status")>>)
      [] type = "car_connected" ->
            emit(emit(S, "device_connected",
                      <<"device", Field(kv, "device"), "status", Field(kv, "status")>>),
                 "device_disconnected", <<"true">>)
      [] type = "car_disconnected" ->
            emit(S, "device_disconnected", <<"true">>)
      [] type = "error" ->
            emit(S, "error", <<Field(kv, "message")>>)
      [] OTHER -> S

\* the switch on message.type
dispatch(S, kv) ==
    LET type == Field(kv, "type") IN
    CASE type = "car_status" ->
            emit(S, "status", <<Field(kv, "data")>>)
      [] type = "car_ack" ->
            emit(S, "acknowledgment",
                 <<"command", Field(kv, "command"), "status", Field(kv, "status")>>)
      [] type = "car_connected" ->
            emit(S, "device_connected",
                 <<"device", Field(kv, "device"), "status", Field(kv, "status")>>)
      [] type = "car_disconnected" ->
            emit(S, "device_disconnected", <<"true">>)
      [] type = "error" ->
            emit(S, "error", <<Field(kv, "message")>>)
      [] OTHER -> S

\* a bug: the catch reports the parse failure to the 'error' subscribers
onmessage_EmitOnParseError(S, text) ==
    LET p == JSONParse(text) IN
    IF ~p.ok \/ ~p.isObject
    THEN emit(S, "error", <<"parse failed">>)
    ELSE dispatch(S, p.kv)

onmessage(S, text) ==
    LET p == JSONParse(text) IN
    IF ~p.ok \/ ~p.isObject
    THEN S      \* JSON.parse or message.type threw: caught and logged
    ELSE [dispatch(S, p.kv) EXCEPT !.op.threw = FALSE]   \* a callback threw: caught too

onerror(S) == emit(S, "error", <<"socket error">>)

\* a bug: the close code is not looked at
onclose_AlwaysReconnect(S, code) ==
    LET S1 == emit(S, "connected", <<"false">>) IN
    IF S1.op.threw THEN S1 ELSE scheduleReconnect(S1)

onclose(S, code) ==
    LET S1 == emit(S, "connected", <<"false">>) IN
    IF S1.op.threw THEN S1
    ELSE IF code # NORMAL_CLOSURE THEN scheduleReconnect(S1) ELSE S1

\* a bug: a failed send is answered with a reconnect
sendCommand_ReconnectOnFailure(S, command, args, sendThrows) ==
    LET speed == IF args = <<>> THEN DEFAULT_SPEED ELSE args[1] IN
    IF ~isConnected(S)
    THEN [S EXCEPT !.op.ret = "false"]
    ELSE IF sendThrows
    THEN [scheduleReconnect(emit(S, "error", <<"send failed">>)) EXCEPT !.op.ret = "false"]
    ELSE [S EXCEPT !.op.wire = Append(@, Stringify(<<"command", command,
                                                      "speed", ToString(speed),
                                                      "timestamp", "now">>)),
                   !.op.ret = "true"]

\* sendThrows: socket.send throws
sendCommand(S, command, args, sendThrows) ==
    LET speed == IF args = <<>> THEN DEFAULT_SPEED ELSE args[1] IN
    IF ~isConnected(S)
    THEN [S EXCEPT !.op.ret = "false"]
    ELSE IF sendThrows
    THEN LET S1 == emit(S, "error", <<"send failed">>)
         IN  IF S1.op.threw THEN S1 ELSE [S1 EXCEPT !.op.ret = "false"]
    ELSE [S EXCEPT !.op.wire = Append(@, Stringify(<<"command", command,
                                                      "speed", ToString(speed),
                                                      "timestamp", "now">>)),
                   !.op.ret = "true"]

disconnect(S) ==
    LET S1 == IF S.socket # 0
              THEN LET S0 == IF S.timeout # 0
                             THEN [S EXCEPT !.timers = clearTimeout(@, S.timeout),
                                            !.timeout = 0]
                             ELSE S
                   IN  [S0 EXCEPT !.ws[S.socket] = Unreferenced(CloseCall(@)),
                                  !.socket = 0,
                                  !.op.closes = @ + 1]
              ELSE S
    IN  [S1 EXCEPT !.attempts = 0]

-----------------------------------------------------------------------------
(* Actions: one per public method and per callback *)

CommitChannel(S) ==
    /\ socket' = S.socket
    /\ ws' = S.ws
    /\ reconnectAttempts' = S.attempts
    /\ reconnectTimeout' = S.timeout
    /\ timers' = S.timers
    /\ op' = S.op
    /\ scheduledInRow' =
          IF S.op.name \in {"onopen", "disconnect", "resetReconnectAttempts"} THEN 0
          ELSE IF S.op.scheduled THEN scheduledInRow + 1
          ELSE scheduledInRow
    /\ manual' = IF S.op.name = "disconnect" THEN TRUE
                 ELSE IF S.op.name = "connect" THEN FALSE
                 ELSE manual
    /\ watch' = watch
    /\ UNCHANGED <<settings, api>>
    /\ exhausted' = IF ~watch THEN FALSE
                    ELSE IF \E i \in 1..Len(S.op.emitted) : S.op.emitted[i] = <<"error", MaxError>>
                    THEN TRUE
                    ELSE IF S.op.name = "connect" THEN FALSE
                    ELSE exhausted
    /\ refill' = IF ~watch THEN "none"
                 ELSE IF \E i \in 1..Len(S.op.emitted) : S.op.emitted[i] = <<"error", MaxError>>
                 THEN (IF refill = "connect" THEN "again"
                       ELSE IF refill = "retry" THEN "denied"
                       ELSE "none")
                 ELSE IF S.op.name = "resetReconnectAttempts" /\ exhausted THEN "reset"
                 ELSE IF S.op.name = "connect" /\ refill = "reset" THEN "connect"
                 ELSE IF S.op.name = "connect" /\ exhausted /\ S.op.created = 1 THEN "retry"
                 ELSE IF refill \in {"reset", "again", "retry", "denied"}
                         \/ S.op.name \in {"disconnect", "onopen"}
                      THEN "none"
                 ELSE refill

\* The callbacks the Index screen registers at mount (index.tsx lines 73-102)
ScreenCallbacks ==
    [connected |-> "setConnected", status |-> "setStatus", acknowledgment |-> "setAck",
     device_connected |-> "logDevice", device_disconnected |-> "setDeviceOff",
     error |-> "logError"]

\* the data of a status event: a CarStatus whose connected field is true or false
CarOn == "car on"
CarOff == "car off"

\* one call of a callback of the screen, on the screen's state
Call(scr, callback, data) ==
    IF callback = "setConnected"
    THEN [scr EXCEPT !.carConnected = (data = <<"true">>), !.carConnecting = FALSE]
    ELSE IF callback = "setStatus"
    THEN [scr EXCEPT !.carStatus = data[1]]
    ELSE IF callback = "setAck"
    THEN [scr EXCEPT !.lastCarCommand = data[2]]
    ELSE IF callback = "setDeviceOff"
    THEN [scr EXCEPT !.carStatus = IF @ = "null" THEN "null" ELSE CarOff]
    ELSE scr

\* the calls of a handler, in order
RECURSIVE Deliver(_, _)
Deliver(scr, delivered) ==
    IF delivered = <<>> THEN scr
    ELSE Deliver(Call(scr, delivered[1][1], delivered[1][3]), Tail(delivered))

\* a handler of the channel that no action of the screen started
Events(scr, delivered) == Deliver([scr EXCEPT !.ui = "none"], delivered)

\* the Index screen before it is mounted (index.tsx lines 55-59), with its
\* history: the direction button held, whether a movement command was sent at
\* its press and no stop since, how far a disconnect/connect cycle has got, and
\* the action of the screen that made the last step
InitScreen ==
    [mounted |-> FALSE, carConnected |-> FALSE, carConnecting |-> FALSE,
     carStatus |-> "null", lastCarCommand |-> "null",
     motorSpeed |-> INITIAL_SPEED, pressed |-> "none", owed |-> FALSE,
     cycle |-> "none", ui |-> "none"]

Commit(S) ==
    /\ screen' = Events(screen, S.op.delivered)
    /\ CommitChannel(S)


\* room for one more socket object once the owned one is closed and dropped
SocketRoom(S) == FreeSockets(closeExisting(S).ws) # {}
\* room for one more timer once the referenced one is cleared
TimerRoom(S) == FreeTimers(S.timers \ {S.timeout}) # {}

\* a bug: connect without the already-connected check
Connect_NoOpenCheck(u, urlWorks, constructThrows) ==
    LET S == Begin("connect", u, 0) IN
    /\ SocketRoom(S) /\ TimerRoom(S)
    /\ wsUrl' = convertToWebSocketUrl(u, urlWorks)
    /\ Commit(connectWebSocket(S, constructThrows))
    /\ UNCHANGED <<listeners, backendUrl>>

\* a bug: connect gives the retry budget back
Connect_RestoresBudget(u, urlWorks, constructThrows) ==
    LET S == [Begin("connect", u, 0) EXCEPT !.attempts = 0] IN
    /\ SocketRoom(S) /\ TimerRoom(S)
    /\ IF isConnected(S)
       THEN /\ Commit(S)
            /\ UNCHANGED wsUrl
       ELSE /\ wsUrl' = convertToWebSocketUrl(u, urlWorks)
            /\ Commit(connectWebSocket(S, constructThrows))
    /\ UNCHANGED <<listeners, backendUrl>>

\* a bug: connect cancels the pending reconnect timer
Connect_CancelsTimer(u, urlWorks, constructThrows) ==
    LET S0 == Begin("connect", u, 0)
        S == [S0 EXCEPT !.timers = clearTimeout(@, S0.timeout), !.timeout = 0] IN
    /\ SocketRoom(S) /\ TimerRoom(S)
    /\ IF isConnected(S)
       THEN /\ Commit(S0)
            /\ UNCHANGED wsUrl
       ELSE /\ wsUrl' = convertToWebSocketUrl(u, urlWorks)
            /\ Commit(connectWebSocket(S, constructThrows))
    /\ UNCHANGED <<listeners, backendUrl>>

Connect(u, urlWorks, constructThrows) ==
    LET S == Begin("connect", u, 0) IN
    /\ SocketRoom(S) /\ TimerRoom(S)
    /\ IF isConnected(S)
       THEN /\ Commit(S)
            /\ UNCHANGED wsUrl
       ELSE /\ wsUrl' = convertToWebSocketUrl(u, urlWorks)
            /\ Commit(connectWebSocket(S, constructThrows))
    /\ UNCHANGED <<listeners, backendUrl>>

\* disconnect(), with its listeners.clear() (line 260)
Disconnect ==
    /\ Commit(disconnect(Begin("disconnect", <<>>, 0)))
    /\ listeners' = [e \in EventNames |-> <<>>]
    /\ UNCHANGED <<wsUrl, backendUrl>>

\* send() of a socket that is OPEN does not throw (it throws only while
\* CONNECTING), and JSON.stringify of a command record does not throw: the
\* catch of sendCommand is not reached by this action.
SendCommand(command, args) ==
    /\ Commit(sendCommand(Begin("sendCommand", <<command>>, 0), command, args, FALSE))
    /\ UNCHANGED <<wsUrl, listeners, backendUrl>>

\* sendCommand where JSON.stringify or socket.send throws (lines 199-203)
SendCommandThrows(command, args) ==
    LET S == Begin("sendCommand", <<command>>, 0) IN
    /\ isConnected(S)
    /\ TimerRoom(S)
    /\ Commit(sendCommand(S, command, args, TRUE))
    /\ UNCHANGED <<wsUrl, listeners, backendUrl>>

\* a bug: the new callback is put in front (unshift for push)
on_Unshift(L, event, callback) == [L EXCEPT ![event] = <<callback>> \o @]

\* on(event, callback); a missing key and an empty list are the same <<>>
on(L, event, callback) == [L EXCEPT ![event] = Append(@, callback)]

\* a bug: off(event, callback) forgets every callback of the event
off_DeleteKind(L, event, args) == [L EXCEPT ![event] = <<>>]

\* off(event, callback?): args is <<>> or <<callback>>
off(L, event, args) ==
    IF args = <<>>
    THEN [L EXCEPT ![event] = <<>>]
    ELSE LET callbacks == L[event]
             found == {i \in 1..Len(callbacks) : callbacks[i] = args[1]}
         IN  IF found = {} THEN L
             ELSE LET index == CHOOSE i \in found : \A j \in found : i <= j    \* indexOf
                  IN  [L EXCEPT ![event] = SubSeq(callbacks, 1, index - 1)
                                            \o SubSeq(callbacks, index + 1, Len(callbacks))]

OnWithin(limit, event, callback) ==
    /\ Len(listeners[event]) < limit
    /\ listeners' = on(listeners, event, callback)
    /\ Commit(Begin("on", <<event, callback>>, 0))
    /\ UNCHANGED <<wsUrl, backendUrl>>

On(event, callback) == OnWithin(MaxHandlers, event, callback)

Off(event, args) ==
    /\ listeners' = off(listeners, event, args)
    /\ Commit(Begin("off", <<event>> \o args, 0))
    /\ UNCHANGED <<wsUrl, backendUrl>>

\* a bug: the counter is left as it is
ActingCallbacks == {"hself", "hother"}

\* what a callback unsubscribes when it is called: "hself" calls
\* off(event, hself), "hother" calls off(event, h1), the others call nothing
Unsubscribes(callback) ==
    IF callback = "hself" THEN <<"hself">>
    ELSE IF callback = "hother" THEN <<"h1">>
    ELSE <<>>

\* callbacks.forEach over the array of the event, which off() splices while the
\* loop runs: the length is read once, index k is visited if the array still
\* has it. L is the listeners map, called the callbacks called so far.
RECURSIVE forEach(_, _, _, _, _)
forEach(L, event, k, len, called) ==
    IF k > len THEN [listeners |-> L, called |-> called]
    ELSE IF k > Len(L[event]) THEN forEach(L, event, k + 1, len, called)
    ELSE LET callback == L[event][k]
             args == Unsubscribes(callback)
             L2 == IF args = <<>> THEN L ELSE off(L, event, args)
         IN  forEach(L2, event, k + 1, len, Append(called, callback))

\* a message whose callbacks may call off() while they are dispatched
SocketMessageActing(id, text) ==
    LET S == onmessage(Begin("onmessage", text, 0), text)
        R == IF S.op.emitted = <<>>
             THEN [listeners |-> listeners, called |-> <<>>]
             ELSE forEach(listeners, S.op.emitted[1][1], 1,
                          Len(listeners[S.op.emitted[1][1]]), <<>>)
    IN  /\ ws[id] = "OPEN"
        /\ Commit([S EXCEPT !.op.delivered =
                       [i \in 1..Len(R.called) |->
                           <<R.called[i], S.op.emitted[1][1], S.op.emitted[1][2]>>]])
        /\ listeners' = R.listeners
        /\ UNCHANGED <<wsUrl, backendUrl>>

\* a bug: the counter is left as it is
ResetReconnectAttempts_KeepCount ==
    /\ Commit(Begin("resetReconnectAttempts", <<>>, 0))
    /\ UNCHANGED <<wsUrl, listeners, backendUrl>>

ResetReconnectAttempts ==
    /\ Commit([Begin("resetReconnectAttempts", <<>>, 0) EXCEPT !.attempts = 0])
    /\ UNCHANGED <<wsUrl, listeners, backendUrl>>

IsConnected ==
    LET S == Begin("isConnected", <<>>, 0) IN
    /\ Commit([S EXCEPT !.op.ret = IF isConnected(S) THEN "true" ELSE "false"])
    /\ UNCHANGED <<wsUrl, listeners, backendUrl>>

SocketOpen(id) ==
    /\ ws[id] = "CONNECTING"
    /\ Commit(onopen([Begin("onopen", <<>>, 0) EXCEPT !.ws[id] = "OPEN"]))
    /\ UNCHANGED <<wsUrl, listeners, backendUrl>>

SocketMessage(id, text) ==
    /\ ws[id] = "OPEN"
    /\ Commit(onmessage(Begin("onmessage", text, 0), text))
    /\ UNCHANGED <<wsUrl, listeners, backendUrl>>

SocketError(id) ==
    /\ ws[id] \in {"CONNECTING", "OPEN", "CLOSING"}
    /\ Commit(onerror(Begin("onerror", <<>>, 0)))
    /\ UNCHANGED <<wsUrl, listeners, backendUrl>>

SocketClose(id, code) ==
    LET S == [Begin("onclose", <<>>, code) EXCEPT
                 !.ws[id] = IF socket = id THEN "CLOSED" ELSE "NONE"] IN
    /\ ws[id] \in {"CONNECTING", "OPEN", "CLOSING"}
    /\ TimerRoom(S)
    /\ Commit(onclose(S, code))
    /\ UNCHANGED <<wsUrl, listeners, backendUrl>>

ReconnectTimer(t, constructThrows) ==
    LET S == [Begin("timer", <<>>, 0) EXCEPT !.timers = @ \ {t}] IN
    /\ t \in timers
    /\ SocketRoom(S) /\ TimerRoom(S)
    /\ Commit(connectWebSocket(S, constructThrows))
    /\ UNCHANGED <<wsUrl, listeners, backendUrl>>

-----------------------------------------------------------------------------
(* The channel under its callers and its environment *)

Url(scheme, host, port, path) == scheme \o <<host>> \o port \o path

BackendUrls ==
    {Url(s, h, p, q) :
        s \in {<<x>> : x \in SpecialSchemes} \cup {<<>>},
        h \in Hosts,
        p \in {<<":", x>> : x \in Ports} \cup {<<>>},
        q \in {<<x>> : x \in Paths} \cup {<<>>}}

DeviceUrl == <<"http://", "192.168.0.115", ":", "3000">>
OtherUrl == <<"http://", "localhost", ":", "3000">>

Inbound ==
    { Stringify(<<"type", "car_status", "data", "s1">>),
      Stringify(<<"type", "car_ack", "command", "forward", "status", "ok">>),
      Stringify(<<"type", "car_connected", "device", "esp32", "status", "on">>),
      Stringify(<<"type", "car_disconnected">>),
      Stringify(<<"type", "error", "message", "bad command">>),
      Stringify(<<"type", "pong">>),
      Stringify(<<"data", "s1">>),
      <<"null">>,
      <<"{", "type", "car_status">>,
      <<"oops">> }

(* The CameraProvider and the settings modal *)

PRODUCTION_URL == <<"https://", "iot-backend-uy96.onrender.com">>
EmulatorUrl == <<"http://", "10.0.2.2", ":", "3000">>
CustomUrl == <<"http://", "192.168.0.50", ":", "3000">>

\* __DEV__ and Platform.OS of the build
Builds == [dev : BOOLEAN, os : {"android", "ios", "web"}]

getDefaultBackendUrl(build) ==
    IF build.dev /\ build.os = "android" THEN EmulatorUrl
    ELSE IF build.dev /\ build.os = "ios" THEN OtherUrl
    ELSE DeviceUrl

\* the provider mounted on an empty storage, the modal closed
InitSettings(build) ==
    [build |-> build,
     isProduction |-> FALSE,
     storage |-> [backend_url |-> "null", is_production |-> "null"],
     pending |-> <<>>,
     visible |-> FALSE,
     tempBackendUrl |-> getDefaultBackendUrl(build),
     tempIsProduction |-> FALSE,
     entered |-> <<>>,      \* history: the URL typed into the field and not replaced since
     saved |-> <<>>]        \* history: the typed URL of the last save, production off

MaxWrites == 2       \* storage writes in flight at once

\* the modal's effect on [visible, backendUrl, isProduction] (lines 30-35)
SyncTemp(st, url) ==
    IF st.visible
    THEN [st EXCEPT !.tempBackendUrl = url, !.tempIsProduction = st.isProduction,
                    !.entered = <<>>]
    ELSE st

OpenSettings ==
    /\ ~settings.visible
    /\ settings' = [SyncTemp([settings EXCEPT !.visible = TRUE], backendUrl)
                       EXCEPT !.entered = <<>>, !.saved = <<>>]
    /\ UNCHANGED <<backendUrl, api, device>>

handleProductionToggle(value) ==
    /\ settings.visible
    /\ settings' = [settings EXCEPT
            !.tempIsProduction = value,
            !.entered = <<>>,
            !.tempBackendUrl =
                IF value THEN PRODUCTION_URL
                ELSE IF settings.build.os = "android" THEN EmulatorUrl
                ELSE IF settings.build.os = "ios" THEN OtherUrl
                ELSE DeviceUrl]
    /\ UNCHANGED <<backendUrl, api, device>>

setTempBackendUrl(url) ==
    /\ settings.visible
    /\ settings' = [settings EXCEPT !.tempBackendUrl = url, !.entered = url]
    /\ UNCHANGED <<backendUrl, api, device>>

\* setIsProduction and setBackendUrl up to their await: the state is set and
\* the storage write is started
handleSave ==
    /\ settings.visible
    /\ Len(settings.pending) + 2 <= MaxWrites
    /\ backendUrl' = settings.tempBackendUrl
    /\ settings' = [settings EXCEPT
            !.isProduction = settings.tempIsProduction,
            !.pending = @ \o << [key |-> "is_production",
                                 value |-> IF settings.tempIsProduction THEN "true" ELSE "false"],
                                [key |-> "backend_url", value |-> settings.tempBackendUrl] >>,
            !.visible = FALSE,
            !.saved = IF settings.tempIsProduction THEN <<>> ELSE settings.entered]
    /\ UNCHANGED <<api, device>>

\* The oldest storage write ends, well or not, and the function that awaited
\* it goes on
StorageWrite(ok) ==
    /\ settings.pending # <<>>
    /\ LET w == Head(settings.pending)
           url == IF ok /\ w.key = "is_production"
                  THEN (IF w.value = "true" THEN PRODUCTION_URL
                        ELSE getDefaultBackendUrl(settings.build))
                  ELSE backendUrl
           st == [settings EXCEPT
                     !.pending = Tail(@),
                     !.storage = IF ok THEN [@ EXCEPT ![w.key] = w.value] ELSE @]
       IN  /\ backendUrl' = url
           /\ settings' = IF url # backendUrl THEN SyncTemp(st, url) ELSE st
    /\ UNCHANGED <<api, device>>

TypedUrls == {CustomUrl, DeviceUrl, PRODUCTION_URL}

NextSettings ==
    \/ OpenSettings
    \/ \E value \in BOOLEAN : handleProductionToggle(value)
    \/ \E url \in TypedUrls : setTempBackendUrl(url)
    \/ handleSave
    \/ \E ok \in BOOLEAN : StorageWrite(ok)

(* carApi, the REST client *)

SEQUENCE_SPEED == 200       \* cmd.speed || 200

\* the entries a caller may list: speed and delay given (<<n>>) or omitted (<<>>)
Entries ==
    [command : {"forward", "stop"}, speed : {<<>>, <<0>>, <<150>>}, delay : {<<>>, <<0>>, <<500>>}]

MaxSequence == 2     \* entries of one sequence

RECURSIVE SeqsUpTo(_, _)
SeqsUpTo(set, n) ==
    IF n = 0 THEN {<<>>}
    ELSE LET shorter == SeqsUpTo(set, n - 1)
         IN  shorter \cup {Append(q, x) : q \in {r \in shorter : Len(r) = n - 1}, x \in set}

Truthy(v) == v # <<>> /\ v[1] # 0

InitApi == [commands |-> <<>>, pc |-> "idle", k |-> 0, log |-> <<>>]

\* sendCommand up to its await: the request is posted
post(a, k) ==
    LET cmd == a.commands[k]
        speed == IF Truthy(cmd.speed) THEN cmd.speed[1] ELSE SEQUENCE_SPEED
    IN  [a EXCEPT !.pc = "posting", !.k = k,
                  !.log = Append(@, <<"post", cmd.command, speed>>)]

\* the next turn of the for loop
advance(a) ==
    IF a.k < Len(a.commands) THEN post(a, a.k + 1) ELSE [a EXCEPT !.pc = "resolved"]

sendCommandSequence(commands) ==
    /\ api.pc \in {"idle", "resolved", "rejected"}
    /\ api' = advance([commands |-> commands, pc |-> "idle", k |-> 0, log |-> <<>>])
    /\ UNCHANGED <<backendUrl, settings, device>>

\* axios.post settles
HttpResponse(ok) ==
    /\ api.pc = "posting"
    /\ LET a == [api EXCEPT !.log = Append(@, <<IF ok THEN "ok" ELSE "fail">>)]
       IN  api' = IF ~ok THEN [a EXCEPT !.pc = "rejected"]
                  ELSE IF Truthy(a.commands[a.k].delay) THEN [a EXCEPT !.pc = "waiting"]
                  ELSE advance(a)
    /\ UNCHANGED <<backendUrl, settings, device>>

\* the timer of an entry's delay fires
DelayTimer ==
    /\ api.pc = "waiting"
    /\ api' = advance([api EXCEPT !.log = Append(@, <<"wait", api.commands[api.k].delay[1]>>)])
    /\ UNCHANGED <<backendUrl, settings, device>>

NextApi ==
    \/ \E commands \in SeqsUpTo(Entries, MaxSequence) : sendCommandSequence(commands)
    \/ \E ok \in BOOLEAN : HttpResponse(ok)
    \/ DelayTimer

InitDevice ==
    /\ socket = 0
    /\ ws = [i \in SocketIds |-> "NONE"]
    /\ reconnectAttempts = 0
    /\ reconnectTimeout = 0
    /\ timers = {}
    /\ wsUrl = <<>>
    /\ listeners = [e \in EventNames |-> <<>>]
    /\ op = [name |-> "init", arg |-> <<>>, code |-> 0, ret |-> "void",
             wire |-> <<>>, emitted |-> <<>>, delivered |-> <<>>,
             created |-> 0, closes |-> 0, scheduled |-> FALSE, threw |-> FALSE,
             before |-> 0, pending |-> {}, order |-> <<>>]
    /\ scheduledInRow = 0
    /\ manual = FALSE
    /\ exhausted = FALSE
    /\ refill = "none"
    /\ screen = InitScreen

InitChannel ==
    /\ InitDevice
    /\ settings = InitSettings([dev |-> FALSE, os |-> "android"])
    /\ api = InitApi

Init ==
    /\ InitChannel
    /\ backendUrl = DeviceUrl
    /\ watch = FALSE

Next ==
    \/ \E u \in {backendUrl, OtherUrl}, w, c \in BOOLEAN : Connect(u, w, c)
    \/ Disconnect
    \/ \E command \in PressedCommands, args \in {<<>>} \cup {<<n>> : n \in Speeds} :
          SendCommand(command, args)
    \/ \E e \in SubscribedEvents, h \in Handlers : On(e, h)
    \/ ResetReconnectAttempts
    \/ \E id \in SocketIds : SocketOpen(id)
    \/ \E id \in SocketIds, text \in Inbound : SocketMessage(id, text)
    \/ \E id \in SocketIds : SocketError(id)
    \/ \E id \in SocketIds, code \in CloseCodes : SocketClose(id, code)
    \/ \E t \in TimerIds, c \in BOOLEAN : ReconnectTimer(t, c)

Spec == Init /\ [][Next]_vars

\* URL derivation over every form of backend URL
InitUrl ==
    /\ InitChannel
    /\ backendUrl \in BackendUrls
    /\ watch = FALSE

NextUrl ==
    \/ \E w, c \in BOOLEAN : Connect(backendUrl, w, c)
    \/ Disconnect

SpecUrl == InitUrl /\ [][NextUrl]_vars

\* The subscriptions: several callbacks per event, registered more than once,
\* unsubscribed one by one or by event, while messages arrive
Callbacks == {"h1", "h2"}
StudiedEvents == {"status", "error"}

Subscribe(event, callback) == OnWithin(MaxRegistered, event, callback)

NextSub ==
    \/ \E e \in StudiedEvents, h \in Callbacks : Subscribe(e, h)
    \/ \E e \in StudiedEvents \cup {"connected"}, args \in {<<>>} \cup {<<h>> : h \in Callbacks} :
          Off(e, args)
    \/ Connect(backendUrl, TRUE, FALSE)
    \/ Disconnect
    \/ \E id \in SocketIds : SocketOpen(id)
    \/ \E id \in SocketIds, text \in Inbound : SocketMessage(id, text)

SpecSub == Init /\ [][NextSub]_vars

\* The reconnect budget: exhaustion and recovery, recorded in the history
InitBudget ==
    /\ InitChannel
    /\ backendUrl = DeviceUrl
    /\ watch = TRUE

NextBudget ==
    \/ \E c \in BOOLEAN : Connect(backendUrl, TRUE, c)
    \/ Disconnect
    \/ \E h \in Handlers : On("error", h)
    \/ ResetReconnectAttempts
    \/ \E id \in SocketIds : SocketOpen(id)
    \/ \E id \in SocketIds : SocketError(id)
    \/ \E id \in SocketIds, code \in CloseCodes : SocketClose(id, code)
    \/ \E t \in TimerIds, c \in BOOLEAN : ReconnectTimer(t, c)

SpecBudget == InitBudget /\ [][NextBudget]_vars

\* The dispatch to callbacks that unsubscribe while they are called
StatusFrames ==
    { Stringify(<<"type", "car_status", "data", "s1">>),
      Stringify(<<"type", "pong">>) }

NextActing ==
    \/ \E h \in Callbacks \cup ActingCallbacks : Subscribe("status", h)
    \/ Off("status", <<>>)
    \/ Connect(backendUrl, TRUE, FALSE)
    \/ Disconnect
    \/ \E id \in SocketIds : SocketOpen(id)
    \/ \E id \in SocketIds, text \in StatusFrames : SocketMessageActing(id, text)

SpecActing == Init /\ [][NextActing]_vars

\* The Index screen (index.tsx) on top of the channel. Its controls are the
\* ones it renders: Connect while neither connected nor connecting, Disconnect
\* while connected, the direction buttons while connected with the car on; the
\* user touches one control at a time.
Directions == {"forward", "backward", "left", "right"}

\* the effect of lines 71-104: six on() calls
Mount ==
    /\ ~screen.mounted
    /\ listeners' = [e \in EventNames |-> Append(listeners[e], ScreenCallbacks[e])]
    /\ screen' = [InitScreen EXCEPT !.mounted = TRUE, !.ui = "mount"]
    /\ CommitChannel(Begin("mount", <<>>, 0))
    /\ UNCHANGED <<wsUrl, backendUrl>>

\* the cleanup of lines 105-113: six off() calls and disconnect()
Unmount ==
    /\ screen.mounted
    /\ listeners' = [e \in EventNames |-> <<>>]
    /\ screen' = [InitScreen EXCEPT !.ui = "unmount"]
    /\ CommitChannel(disconnect(Begin("disconnect", <<>>, 0)))
    /\ UNCHANGED <<wsUrl, backendUrl>>

\* connectCarWebSocket (lines 236-252)
ConnectCar(constructThrows) ==
    LET S == Begin("connect", backendUrl, 0)
        T == connectWebSocket(S, constructThrows)
        cycle == IF screen.cycle = "disconnected" THEN "reconnected" ELSE screen.cycle IN
    /\ screen.mounted /\ ~screen.carConnected /\ ~screen.carConnecting
    /\ screen.pressed = "none"
    /\ SocketRoom(S) /\ TimerRoom(S)
    /\ IF isConnected(S)
       THEN /\ CommitChannel(S)
            /\ screen' = [screen EXCEPT !.ui = "connectCar"]
            /\ UNCHANGED wsUrl
       ELSE /\ wsUrl' = convertToWebSocketUrl(backendUrl, TRUE)
            /\ CommitChannel(T)
            /\ screen' = Deliver([screen EXCEPT !.carConnecting = TRUE, !.cycle = cycle,
                                                !.ui = "connectCar"],
                                 T.op.delivered)
    /\ UNCHANGED <<listeners, backendUrl>>

\* disconnectCarWebSocket (lines 254-260)
DisconnectCar ==
    /\ screen.mounted /\ screen.carConnected /\ ~screen.carConnecting
    /\ screen.pressed = "none"
    /\ CommitChannel(disconnect(Begin("disconnect", <<>>, 0)))
    /\ listeners' = [e \in EventNames |-> <<>>]
    /\ screen' = [screen EXCEPT !.carConnected = FALSE, !.carStatus = "null",
                                !.lastCarCommand = "null", !.cycle = "disconnected",
                                !.ui = "disconnectCar"]
    /\ UNCHANGED <<wsUrl, backendUrl>>

\* sendCarCommand (lines 262-277): the channel and the screen after it
sendCarCommand(S, scr, command) ==
    IF ~isConnected(S) \/ scr.carStatus # CarOn
    THEN [S |-> S, scr |-> scr]         \* an alert, nothing sent
    ELSE LET T == sendCommand(S, command, <<scr.motorSpeed>>, FALSE)
         IN  [S |-> T,
              scr |-> IF T.op.ret = "true"
                      THEN [scr EXCEPT !.lastCarCommand = command,
                                       !.owed = (command \in Directions)]
                      ELSE scr]

\* onPressIn of a direction button
PressIn(direction) ==
    LET R == sendCarCommand(Begin("sendCarCommand", <<direction>>, 0),
                            [screen EXCEPT !.pressed = direction, !.ui = "pressIn"],
                            direction) IN
    /\ screen.mounted /\ screen.carConnected /\ screen.carStatus = CarOn
    /\ screen.pressed = "none"
    /\ CommitChannel(R.S)
    /\ screen' = R.scr
    /\ UNCHANGED <<wsUrl, listeners, backendUrl>>

\* onPressOut of the direction button held; when the buttons are no longer
\* rendered at release the platform may not call it at all, which sends no
\* more than calling it
PressOut ==
    LET R == sendCarCommand(Begin("sendCarCommand", <<"stop">>, 0),
                            [screen EXCEPT !.pressed = "none", !.ui = "pressOut"],
                            "stop") IN
    /\ screen.mounted /\ screen.pressed # "none"
    /\ CommitChannel(R.S)
    /\ screen' = R.scr
    /\ UNCHANGED <<wsUrl, listeners, backendUrl>>

\* onPress of the stop button
StopButton ==
    LET R == sendCarCommand(Begin("sendCarCommand", <<"stop">>, 0),
                            [screen EXCEPT !.ui = "stop"], "stop") IN
    /\ screen.mounted /\ screen.carConnected /\ screen.carStatus = CarOn
    /\ screen.pressed = "none"
    /\ CommitChannel(R.S)
    /\ screen' = R.scr
    /\ UNCHANGED <<wsUrl, listeners, backendUrl>>

Min(a, b) == IF a < b THEN a ELSE b
Max(a, b) == IF a > b THEN a ELSE b

\* a bug: the + button does not stop at the maximum
SpeedUp_NoClamp ==
    /\ screen.mounted
    /\ screen' = [screen EXCEPT !.motorSpeed = @ + SPEED_STEP, !.ui = "speedUp"]
    /\ CommitChannel(Begin("setMotorSpeed", <<>>, 0))
    /\ UNCHANGED <<wsUrl, listeners, backendUrl>>

\* the - and + buttons (lines 495, 510)
SpeedDown ==
    /\ screen.mounted
    /\ screen' = [screen EXCEPT !.motorSpeed = Max(0, @ - SPEED_STEP), !.ui = "speedDown"]
    /\ CommitChannel(Begin("setMotorSpeed", <<>>, 0))
    /\ UNCHANGED <<wsUrl, listeners, backendUrl>>

SpeedUp ==
    /\ screen.mounted
    /\ screen' = [screen EXCEPT !.motorSpeed = Min(MAX_SPEED, @ + SPEED_STEP), !.ui = "speedUp"]
    /\ CommitChannel(Begin("setMotorSpeed", <<>>, 0))
    /\ UNCHANGED <<wsUrl, listeners, backendUrl>>

\* parseInt(text) with no radix, text a sequence of characters: leading blanks
\* are skipped, then an optional sign, an optional 0x for radix 16, and the
\* longest run of digits of the radix; no digit gives NaN
DigitValue ==
    [c \in {"0", "1", "2", "3", "4", "5", "6", "7", "8", "9", "a", "b", "c", "e", "F"} |->
        CASE c = "0" -> 0 [] c = "1" -> 1 [] c = "2" -> 2 [] c = "3" -> 3 [] c = "4" -> 4
          [] c = "5" -> 5 [] c = "6" -> 6 [] c = "7" -> 7 [] c = "8" -> 8 [] c = "9" -> 9
          [] c = "a" -> 10 [] c = "b" -> 11 [] c = "c" -> 12 [] c = "e" -> 14 [] c = "F" -> 15]

IsDigit(c, radix) == c \in DOMAIN DigitValue /\ DigitValue[c] < radix

RECURSIVE SkipBlanks(_)
SkipBlanks(text) ==
    IF text # <<>> /\ text[1] = " " THEN SkipBlanks(Tail(text)) ELSE text

RECURSIVE DigitRun(_, _, _)
DigitRun(text, radix, acc) ==
    IF text # <<>> /\ IsDigit(text[1], radix)
    THEN DigitRun(Tail(text), radix, acc * radix + DigitValue[text[1]])
    ELSE acc

parseInt(text) ==
    LET t1 == SkipBlanks(text)
        negative == t1 # <<>> /\ t1[1] = "-"
        t2 == IF t1 # <<>> /\ t1[1] \in {"-", "+"} THEN Tail(t1) ELSE t1
        hex == Len(t2) >= 2 /\ t2[1] = "0" /\ t2[2] \in {"x", "X"}
        t3 == IF hex THEN Tail(Tail(t2)) ELSE t2
        radix == IF hex THEN 16 ELSE 10
    IN  IF t3 = <<>> \/ ~IsDigit(t3[1], radix)
        THEN [nan |-> TRUE, value |-> 0]
        ELSE [nan |-> FALSE,
              value |-> IF negative THEN 0 - DigitRun(t3, radix, 0)
                        ELSE DigitRun(t3, radix, 0)]

\* what the user may leave in the speed field
Texts ==
    { <<>>, <<"0">>, <<"7">>, <<"-", "5">>, <<"1", "2">>, <<"2", "5", "5">>,
      <<"2", "5", "6">>, <<"9", "9", "9">>, <<"a", "b", "c">>, <<"1", "2", ".", "7">>,
      <<" ", "4", "2">>, <<"0", "x", "1", "F">>, <<"1", "e", "3">> }

\* onChangeText of the speed field (lines 503-506)
SpeedText(text) ==
    LET parsed == parseInt(text)
        speed == IF parsed.nan \/ parsed.value = 0 THEN 0 ELSE parsed.value    \* || 0
    IN  /\ screen.mounted
        /\ screen' = [screen EXCEPT !.motorSpeed = Max(0, Min(MAX_SPEED, speed)),
                                    !.ui = "speedText"]
        /\ CommitChannel(Begin("setMotorSpeed", text, 0))
        /\ UNCHANGED <<wsUrl, listeners, backendUrl>>

ScreenFrames ==
    { Stringify(<<"type", "car_status", "data", CarOn>>),
      Stringify(<<"type", "car_status", "data", CarOff>>),
      Stringify(<<"type", "car_disconnected">>),
      Stringify(<<"type", "car_ack", "command", "forward", "status", "ok">>) }

PressedDirections == {"forward", "left"}

NextScreen ==
    \/ Mount
    \/ Unmount
    \/ ConnectCar(FALSE)
    \/ DisconnectCar
    \/ \E d \in PressedDirections : PressIn(d)
    \/ PressOut
    \/ StopButton
    \/ \E id \in SocketIds : SocketOpen(id)
    \/ \E id \in SocketIds, text \in ScreenFrames : SocketMessage(id, text)
    \/ \E id \in SocketIds, code \in CloseCodes : SocketClose(id, code)
    \/ \E t \in TimerIds : ReconnectTimer(t, FALSE)

SpecScreen == Init /\ [][NextScreen]_vars

\* The speed control of the Index screen and the commands sent with its speed
NextSpeed ==
    \/ Mount
    \/ ConnectCar(FALSE)
    \/ SpeedDown
    \/ SpeedUp
    \/ \E text \in Texts : SpeedText(text)
    \/ \E d \in PressedDirections : PressIn(d)
    \/ PressOut
    \/ \E id \in SocketIds : SocketOpen(id)
    \/ \E id \in SocketIds : SocketMessage(id, Stringify(<<"type", "car_status", "data", CarOn>>))

SpecSpeed == Init /\ [][NextSpeed]_vars

\* The settings modal over the provider, on every build
InitProvider ==
    /\ InitDevice
    /\ watch = FALSE
    /\ api = InitApi
    /\ \E build \in Builds :
          /\ settings = InitSettings(build)
          /\ backendUrl = getDefaultBackendUrl(build)

SpecSettings == InitProvider /\ [][NextSettings]_vars

\* Sequences of commands through the REST client
SpecApi == Init /\ [][NextApi]_vars

\* The channel on a platform whose send can throw
NextFault ==
    \/ \E c \in BOOLEAN : Connect(backendUrl, TRUE, c)
    \/ Disconnect
    \/ \E command \in PressedCommands : SendCommand(command, <<>>)
    \/ \E command \in PressedCommands : SendCommandThrows(command, <<>>)
    \/ \E e \in SubscribedEvents, h \in Handlers : On(e, h)
    \/ \E id \in SocketIds : SocketOpen(id)
    \/ \E id \in SocketIds, code \in CloseCodes : SocketClose(id, code)
    \/ \E t \in TimerIds, c \in BOOLEAN : ReconnectTimer(t, c)

SpecFault == Init /\ [][NextFault]_vars

\* The wire under callers that pass any number as the speed
CallerSpeeds == {-1, 0, 150, MAX_SPEED, MAX_SPEED + 1}

NextWire ==
    \/ Connect(backendUrl, TRUE, FALSE)
    \/ Disconnect
    \/ \E command \in Commands, args \in {<<>>} \cup {<<n>> : n \in CallerSpeeds} :
          SendCommand(command, args)
    \/ \E id \in SocketIds : SocketOpen(id)
    \/ \E id \in SocketIds, code \in CloseCodes : SocketClose(id, code)
    \/ \E t \in TimerIds : ReconnectTimer(t, FALSE)

SpecWire == Init /\ [][NextWire]_vars

\* The public operations under callers whose callbacks may throw
PublicOps == {"connect", "sendCommand", "on", "off", "disconnect", "isConnected",
              "resetReconnectAttempts"}

NextThrow ==
    \/ \E e \in SubscribedEvents, h \in Handlers \cup Throwing : On(e, h)
    \/ \E e \in SubscribedEvents, args \in {<<>>} \cup {<<h>> : h \in Throwing} : Off(e, args)
    \/ \E c \in BOOLEAN : Connect(backendUrl, TRUE, c)
    \/ Disconnect
    \/ SendCommand("stop", <<>>)
    \/ IsConnected
    \/ ResetReconnectAttempts
    \/ \E id \in SocketIds : SocketOpen(id)
    \/ \E id \in SocketIds, code \in CloseCodes : SocketClose(id, code)
    \/ \E t \in TimerIds, c \in BOOLEAN : ReconnectTimer(t, c)

SpecThrow == Init /\ [][NextThrow]_vars

-----------------------------------------------------------------------------
(* The claims *)

Emitted(event, data) == \E i \in 1..Len(op.emitted) : op.emitted[i] = <<event, data>>
OwnedOpen == socket # 0 /\ ws[socket] = "OPEN"
NoListeners == \A e \in EventNames : listeners[e] = <<>>

\* C1: sendCommand is gated on the connection state: called while the owned
\* socket is not Open (none, Connecting, Closing, Closed, waiting for a reconnect
\* timer) it returns false and writes nothing; called while it is Open it
\* returns true and writes exactly one frame.
C1_SendGating ==
    [][op'.name = "sendCommand" =>
          IF OwnedOpen
          THEN op'.ret = "true" /\ Len(op'.wire) = 1
          ELSE op'.ret = "false" /\ op'.wire = <<>>]_vars

\* sendCommand refused while the closed socket waits for its reconnect timer
C1_Witness ==
    /\ op.name = "sendCommand" /\ op.ret = "false" /\ op.wire = <<>>
    /\ socket # 0 /\ ws[socket] = "CLOSED" /\ timers # {}

\* C2: from a counter of 0, consecutive abnormal closes with no open in between
\* schedule exactly 5 reconnects: each abnormal close schedules one while fewer
\* than 5 were scheduled in a row, and the one after the 5th emits the error
\* 'Max reconnection attempts reached' and schedules nothing.
C2_ReconnectBound ==
    /\ scheduledInRow <= 5
    /\ (op.name = "onclose" /\ op.code # 1000) =>
          \/ /\ op.scheduled /\ timers # {}
             /\ ~Emitted("error", MaxError)
          \/ /\ ~op.scheduled
             /\ Emitted("error", MaxError)
             /\ scheduledInRow = 5

\* the abnormal close after the 5th scheduled attempt
C2_Witness ==
    /\ op.name = "onclose" /\ op.code # 1000
    /\ scheduledInRow = 5 /\ ~op.scheduled /\ Emitted("error", MaxError)

\* C3: a socket open sets reconnectAttempts to 0 whatever it was, so the budget
\* left is always 5 less the reconnects scheduled since the last open (or
\* disconnect or reset), never the remainder of an earlier budget.
C3_ReconnectReset ==
    /\ op.name = "onopen" => reconnectAttempts = 0
    /\ 5 - reconnectAttempts = 5 - scheduledInRow

\* an open that found the counter at 3
C3_Witness == op.name = "onopen" /\ op.before = 3 /\ reconnectAttempts = 0

\* C4: after disconnect(), until the caller calls connect() again, no handler
\* schedules a reconnect timer and none creates a socket.
C4_ManualDisconnectSuppressesReconnect ==
    manual => (~op.scheduled /\ op.created = 0)

\* C5: when disconnect() returns, no reconnect timer is pending, the socket
\* reference is null, no callback is registered and reconnectAttempts is 0.
C5_DisconnectPostcondition ==
    op.name = "disconnect" =>
        /\ timers = {}
        /\ socket = 0
        /\ NoListeners
        /\ reconnectAttempts = 0

\* C6: connect(url) called while the owned socket is Open closes no socket,
\* creates none, and leaves the stored endpoint, the counter, the reconnect
\* timer and the subscriptions as they are.
C6_IdempotentConnect ==
    [][(op'.name = "connect" /\ OwnedOpen) =>
          /\ op'.created = 0 /\ op'.closes = 0
          /\ UNCHANGED chan]_vars

\* connect with another URL than the stored endpoint's, while Open
C6_Witness ==
    /\ op.name = "connect" /\ op.arg = OtherUrl /\ op.created = 0
    /\ OwnedOpen
    /\ wsUrl = convertToWebSocketUrl(DeviceUrl, TRUE)

\* C7: at most one socket of the channel is Connecting or Open, the owned one;
\* every handler that creates a socket while one is owned closes that one first.
C7_SingleLiveSocket ==
    /\ [](\A i \in SocketIds : ws[i] \in {"CONNECTING", "OPEN"} => i = socket)
    /\ [][(op'.created = 1 /\ socket # 0) =>
             /\ op'.closes = 1
             /\ socket' # 0
             /\ (socket' = socket \/ ws'[socket] \notin {"CONNECTING", "OPEN"})]_vars

\* a new socket Connecting while the superseded one is still Closing
C7_Witness ==
    /\ op.created = 1 /\ op.closes = 1
    /\ socket # 0 /\ ws[socket] = "CONNECTING"
    /\ \E i \in SocketIds : i # socket /\ ws[i] = "CLOSING"

\* C8: connect derives ws://h:p/ws from http://h:p, wss://h:p/ws from
\* https://h:p, ws://h:p/ws from ws://h:p, wss://h:p/ws from wss://h:p,
\* ws://h:p/ws from the bare h:p, and leaves ws://h:p/ws as it is.
C8_UrlNormalization ==
    (op.name = "connect" /\ op.arg = backendUrl) =>
        \A h \in Hosts, p \in Ports :
            /\ backendUrl = <<"http://", h, ":", p>> => wsUrl = <<"ws://", h, ":", p, "/ws">>
            /\ backendUrl = <<"https://", h, ":", p>> => wsUrl = <<"wss://", h, ":", p, "/ws">>
            /\ backendUrl = <<"ws://", h, ":", p>> => wsUrl = <<"ws://", h, ":", p, "/ws">>
            /\ backendUrl = <<"wss://", h, ":", p>> => wsUrl = <<"wss://", h, ":", p, "/ws">>
            /\ backendUrl = <<h, ":", p>> => wsUrl = <<"ws://", h, ":", p, "/ws">>
            /\ backendUrl = <<"ws://", h, ":", p, "/ws">> => wsUrl = <<"ws://", h, ":", p, "/ws">>

\* the event each frame of Inbound is to produce
ExpectedEvents(text) ==
    CASE text = Stringify(<<"type", "car_status", "data", "s1">>) ->
            << <<"status", <<"s1">>>> >>
      [] text = Stringify(<<"type", "car_ack", "command", "forward", "status", "ok">>) ->
            << <<"acknowledgment", <<"command", "forward", "status", "ok">>>> >>
      [] text = Stringify(<<"type", "car_connected", "device", "esp32", "status", "on">>) ->
            << <<"device_connected", <<"device", "esp32", "status", "on">>>> >>
      [] text = Stringify(<<"type", "car_disconnected">>) ->
            << <<"device_disconnected", <<"true">>>> >>
      [] text = Stringify(<<"type", "error", "message", "bad command">>) ->
            << <<"error", <<"bad command">>>> >>
      [] OTHER -> <<>>

\* C9: an inbound message emits exactly the one event of its type tag, with the
\* payload of the table, and a message with any other tag emits none.
C9_DispatchCorrectness ==
    op.name = "onmessage" => op.emitted = ExpectedEvents(op.arg)

\* a car_connected message dispatched as device_connected
C9_Witness ==
    /\ op.name = "onmessage"
    /\ op.arg = Stringify(<<"type", "car_connected", "device", "esp32", "status", "on">>)
    /\ op.emitted = << <<"device_connected", <<"device", "esp32", "status", "on">>>> >>

Malformed == { <<"{", "type", "car_status">>, <<"oops">> }

\* C10: a frame that is not JSON emits nothing, delivers nothing to any
\* callback, throws nothing and changes nothing of the channel, and the socket
\* goes on receiving.
C10_MalformedFrameDropped ==
    /\ []((op.name = "onmessage" /\ op.arg \in Malformed) =>
             /\ op.emitted = <<>> /\ op.delivered = <<>> /\ ~op.threw
             /\ \E i \in SocketIds : ws[i] = "OPEN")
    /\ [][(op'.name = "onmessage" /\ op'.arg \in Malformed) => UNCHANGED chan]_vars

\* a malformed frame received while an 'error' callback is registered
C10_Witness ==
    /\ op.name = "onmessage" /\ op.arg \in Malformed
    /\ listeners["error"] # <<>>

RangeOf(seq) == {seq[i] : i \in 1..Len(seq)}

\* C11: off(kind) removes every callback of kind and none of another kind;
\* off(kind, h) removes h only (its first registration), the other callbacks of
\* kind staying registered in their order; off for a kind or a callback that
\* is not registered changes nothing. off touches nothing but the registry.
C11_UnsubscribeSemantics ==
    [][op'.name = "off" =>
          LET kind == op'.arg[1]
              old == listeners[kind]
              new == listeners'[kind]
          IN  /\ \A k \in EventNames \ {kind} : listeners'[k] = listeners[k]
              /\ UNCHANGED <<socket, ws, reconnectAttempts, reconnectTimeout, timers, wsUrl>>
              /\ Len(op'.arg) = 1 => new = <<>>
              /\ Len(op'.arg) = 2 =>
                    IF op'.arg[2] \notin RangeOf(old)
                    THEN new = old
                    ELSE \E i \in 1..Len(old) :
                            /\ old[i] = op'.arg[2]
                            /\ \A j \in 1..(i - 1) : old[j] # op'.arg[2]
                            /\ Len(new) = Len(old) - 1
                            /\ \A j \in 1..Len(new) :
                                  new[j] = IF j < i THEN old[j] ELSE old[j + 1]]_vars

\* off("status", h1) that left h2 and a second registration of h1, in that order,
\* and the callback of another kind
C11_Witness ==
    /\ op.name = "off" /\ op.arg = <<"status", "h1">>
    /\ listeners["status"] = <<"h2", "h1">>
    /\ listeners["error"] = <<"h1">>

RECURSIVE DeliveriesOf(_)
\* the calls the emits of a handler are to make: per emit, the callbacks of its
\* event in list order
DeliveriesOf(emits) ==
    IF emits = <<>> THEN <<>>
    ELSE LET event == emits[1][1]
             data == emits[1][2]
         IN  [i \in 1..Len(listeners[event]) |-> <<listeners[event][i], event, data>>]
                \o DeliveriesOf(Tail(emits))

\* C12: on appends, so the list order is the subscription order; every emit
\* calls the callbacks of its event in that order, within the handler that
\* emits; a message's handler delivers the event of that message and no other.
C12_DeliveryOrder ==
    /\ [](op.delivered = DeliveriesOf(op.emitted))
    /\ [](op.name = "onmessage" => op.emitted = ExpectedEvents(op.arg))
    /\ [][op'.name = "on" =>
             /\ listeners'[op'.arg[1]] = Append(listeners[op'.arg[1]], op'.arg[2])
             /\ \A k \in EventNames \ {op'.arg[1]} : listeners'[k] = listeners[k]]_vars

\* a status message delivered to h2, subscribed first, and then to h1
C12_Witness ==
    /\ op.name = "onmessage"
    /\ listeners["status"] = <<"h2", "h1">>
    /\ op.delivered = << <<"h2", "status", <<"s1">>>>, <<"h1", "status", <<"s1">>>> >>

\* C13: no public operation (connect, sendCommand, on, off, disconnect,
\* isConnected, resetReconnectAttempts) raises an exception to its caller, in
\* any channel state, also when socket construction fails and the failure path
\* emits an error event to the subscribers.
C13_NoThrowAcrossApi ==
    op.name \in PublicOps => ~op.threw

TerminalErrors(o) == {i \in 1..Len(o.emitted) : o.emitted[i] = <<"error", MaxError>>}

\* C14: budget exhaustion is terminal and surfaced once: once the 'Max
\* reconnection attempts reached' error event has been emitted, it is not emitted
\* again, no reconnect timer is scheduled and no socket is created until the
\* caller calls connect(); no handler emits it twice.
C14_ExhaustionTerminal ==
    /\ [](Cardinality(TerminalErrors(op)) <= 1)
    /\ [][(exhausted /\ op'.name # "connect") =>
             /\ ~op'.scheduled
             /\ op'.created = 0
             /\ TerminalErrors(op') = {}]_vars

\* C15: once the budget is exhausted, resetReconnectAttempts() followed by
\* connect() restores a full budget: the reset zeroes the counter and changes
\* nothing else, connect() leaves the counter as it is unless construction
\* fails, the counter is the number of reconnects scheduled since, every
\* abnormal close below the maximum schedules one, and the terminal error
\* comes only after 5 have been scheduled.
C15_RecoveryAfterExhaustion ==
    /\ [](reconnectAttempts = scheduledInRow)
    /\ [](TerminalErrors(op) # {} =>
             op.before = maxReconnectAttempts /\ scheduledInRow = maxReconnectAttempts)
    /\ [][
           /\ (op'.name = "resetReconnectAttempts") =>
                (/\ reconnectAttempts' = 0
                 /\ UNCHANGED <<socket, ws, reconnectTimeout, timers, wsUrl, listeners>>)
           /\ (op'.name = "connect" /\ refill = "reset") =>
                (reconnectAttempts' = IF op'.scheduled THEN 1 ELSE 0)
           /\ (op'.name = "onclose" /\ op'.code # NORMAL_CLOSURE
                 /\ reconnectAttempts < maxReconnectAttempts) =>
                (op'.scheduled /\ reconnectAttempts' = reconnectAttempts + 1)]_vars

\* the budget was exhausted, reset, connect() called, and 5 reconnects
\* scheduled by abnormal closes before the terminal error came again
C15_Witness ==
    /\ refill = "again"
    /\ op.name = "onclose"
    /\ op.code = 1006
    /\ scheduledInRow = maxReconnectAttempts
    /\ TerminalErrors(op) # {}

DocumentedFrames ==
    {Stringify(<<"command", c, "speed", ToString(n), "timestamp", "now">>) :
        c \in Commands, n \in 0..MAX_SPEED}

\* C16: every frame sendCommand(command, speed) writes while Open has the
\* documented shape, command one of the 5 values, speed an integer in 0..255
\* and a timestamp, for every speed argument a caller can pass.
C16_WireShape ==
    \A i \in 1..Len(op.wire) : op.wire[i] \in DocumentedFrames

\* C17: at most one reconnect timer is pending at any time, and it is the one
\* reconnectTimeout refers to; a handler that schedules a reconnect leaves
\* exactly its own timer pending, whatever was pending before; a timer that
\* fires creates at most one socket.
C17_SingleTimer ==
    /\ [](Cardinality(timers) <= 1 /\ timers \subseteq {reconnectTimeout})
    /\ [](op.scheduled => timers = {reconnectTimeout})
    /\ [](op.name = "timer" => op.created <= 1)

\* a reconnect is scheduled while the timer of an earlier one is still pending
C17_Witness ==
    /\ op.scheduled
    /\ op.pending # {}
    /\ timers = {reconnectTimeout}

\* C18: on every socket open event connected(true) is emitted to the
\* 'connected' subscribers (each is called with it, in order), and in the state
\* after the event no reconnect timer is pending and reconnectAttempts is 0.
C18_OpenEvent ==
    op.name = "onopen" =>
        /\ op.emitted = << <<"connected", <<"true">>>> >>
        /\ op.delivered = [i \in 1..Len(listeners["connected"]) |->
                              <<listeners["connected"][i], "connected", <<"true">>>>]
        /\ timers = {}
        /\ reconnectTimeout = 0
        /\ reconnectAttempts = 0

\* an open event that found a reconnect timer pending and the counter above 0,
\* with a subscriber
C18_Witness ==
    /\ op.name = "onopen"
    /\ op.pending # {}
    /\ op.before > 0
    /\ Len(op.delivered) = 1
    /\ timers = {}

\* C19: on every socket close event connected(false) is emitted first, before
\* any reconnect is scheduled and before any terminal error is emitted; the
\* event schedules a reconnect timer if and only if the close code is not 1000
\* and reconnectAttempts is below the maximum (and emits the terminal error if
\* and only if the code is not 1000 and it is not below).
C19_CloseEvent ==
    op.name = "onclose" =>
        /\ op.emitted[1] = <<"connected", <<"false">>>>
        /\ op.order \in { <<"connected">>, <<"connected", "setTimeout">>,
                          <<"connected", "error">> }
        /\ op.scheduled <=> (op.code # NORMAL_CLOSURE /\ op.before < maxReconnectAttempts)
        /\ op.scheduled <=> (op.order = <<"connected", "setTimeout">>)
        /\ op.scheduled => (timers = {reconnectTimeout} /\ reconnectAttempts = op.before + 1)
        /\ TerminalErrors(op) # {} <=>
              (op.code # NORMAL_CLOSURE /\ op.before >= maxReconnectAttempts)
        /\ TerminalErrors(op) # {} => op.emitted[2] = <<"error", MaxError>>

\* the three cases: an abnormal close below the maximum, one at the maximum, a
\* normal close
C19_Witness ==
    /\ op.name = "onclose" /\ op.code = 1006 /\ op.before = 4
    /\ op.order = <<"connected", "setTimeout">>
    /\ Len(op.delivered) = 1

C19_WitnessTerminal ==
    /\ op.name = "onclose" /\ op.code = 1006 /\ op.before = maxReconnectAttempts
    /\ op.order = <<"connected", "error">>

C19_WitnessNormal ==
    /\ op.name = "onclose" /\ op.code = NORMAL_CLOSURE /\ op.before > 0
    /\ op.order = <<"connected">>

ConstructionFailed == Emitted("error", <<"construct failed">>)

\* C20: when constructing the socket throws, in connect() or when a reconnect
\* timer fires, the channel emits an error event, owns no socket afterwards and
\* follows the budget rule of an abnormal close: below the maximum it schedules
\* a reconnect and increments reconnectAttempts, at the maximum it schedules
\* none and emits the terminal error.
C20_ConstructionFailure ==
    ConstructionFailed =>
        /\ op.name \in {"connect", "timer"}
        /\ op.emitted[1] = <<"error", <<"construct failed">>>>
        /\ socket = 0
        /\ op.created = 0
        /\ IF op.before < maxReconnectAttempts
           THEN /\ op.scheduled
                /\ op.order = <<"error", "setTimeout">>
                /\ reconnectAttempts = op.before + 1
                /\ timers = {reconnectTimeout}
           ELSE /\ ~op.scheduled
                /\ op.emitted = << <<"error", <<"construct failed">>>>, <<"error", MaxError>> >>
                /\ reconnectAttempts = op.before
                /\ timers = op.pending \ (IF op.name = "timer" THEN {reconnectTimeout} ELSE {})

\* a reconnect timer fires, construction throws although a socket was owned
\* and the budget is used up
C20_Witness ==
    /\ ConstructionFailed
    /\ op.name = "timer"
    /\ op.before = maxReconnectAttempts
    /\ TerminalErrors(op) # {}

C20_WitnessBelow ==
    /\ ConstructionFailed
    /\ op.name = "connect"
    /\ op.closes = 1
    /\ op.before = 2
    /\ op.scheduled

SendFailed(o) == o.name = "sendCommand" /\ o.emitted # <<>>

\* C21: when the socket is Open but the transmission throws, sendCommand
\* returns false, emits exactly one error event carrying the failure (each
\* 'error' subscriber is called once with it), writes nothing, and leaves the
\* owned socket, reconnectAttempts, the reconnect timer and the subscriptions
\* unchanged: no reconnect is scheduled, no socket closed or created.
C21_SendFailure ==
    /\ [](op.name = "sendCommand" =>
            \/ op.ret = "true" /\ Len(op.wire) = 1 /\ op.emitted = <<>>
            \/ op.ret = "false" /\ op.wire = <<>>
                 /\ op.emitted \in {<<>>, << <<"error", <<"send failed">>>> >>})
    /\ [][SendFailed(op') =>
             /\ OwnedOpen
             /\ op'.ret = "false"
             /\ op'.delivered = [i \in 1..Len(listeners["error"]) |->
                                    <<listeners["error"][i], "error", <<"send failed">>>>]
             /\ ~op'.scheduled /\ op'.created = 0 /\ op'.closes = 0
             /\ UNCHANGED chan]_vars

\* a send that threw while a reconnect timer of an earlier failure was still
\* pending and the counter above 0, with an 'error' subscriber
C21_Witness ==
    /\ SendFailed(op)
    /\ OwnedOpen
    /\ Len(op.delivered) = 1
    /\ timers # {}
    /\ reconnectAttempts > 0

\* C22: a pending reconnect timer is cancelled only by a socket open event or
\* by disconnect(), or replaced by a newer schedule; every other handler leaves
\* it pending, connect() and resetReconnectAttempts() in particular; when it
\* fires it runs the connection procedure (a socket is created, or construction
\* fails).
C22_TimerPreemption ==
    /\ [][(timers # {} /\ ~op'.scheduled
             /\ op'.name \notin {"onopen", "disconnect", "timer"}) =>
               UNCHANGED <<timers, reconnectTimeout>>]_vars
    /\ [][(op'.name = "timer") => (timers' \subseteq timers \/ op'.scheduled)]_vars
    /\ [](op.name = "timer" => (op.created = 1 \/ ConstructionFailed))

\* connect() created a socket while a reconnect timer was pending, and the
\* timer is still pending
C22_Witness ==
    /\ op.name = "connect"
    /\ op.created = 1
    /\ op.pending # {}
    /\ timers = op.pending

\* resetReconnectAttempts() while a timer was pending
C22_WitnessReset ==
    /\ op.name = "resetReconnectAttempts"
    /\ op.pending # {}
    /\ timers = op.pending

\* the timer that connect() left pending fires: it closes the socket that is
\* still Connecting and creates another
C22_WitnessFires ==
    /\ op.name = "timer"
    /\ op.closes = 1
    /\ op.created = 1
    /\ \E i \in SocketIds : ws[i] = "CLOSING"

\* the event of this step comes from a socket the channel does not own
FromSuperseded == \E id \in SocketIds : id # socket /\ ws'[id] # ws[id] /\ ws'[id] = "NONE"

\* C23: events from a superseded socket are inert: a close or open event of a
\* socket the channel has replaced or discarded does not change
\* reconnectAttempts and schedules no reconnect timer, and it never leads to
\* the owned socket being closed (no reconnect timer fires on an Open owned
\* socket: an open event cancels the timer, so one that fires then was set by
\* a superseded socket's event).
C23_SupersededInert ==
    /\ [][(op'.name \in {"onclose", "onopen"} /\ FromSuperseded) =>
             /\ reconnectAttempts' = reconnectAttempts
             /\ ~op'.scheduled
             /\ UNCHANGED <<timers, reconnectTimeout>>]_vars
    /\ [][(op'.name = "timer" /\ OwnedOpen) => op'.closes = 0]_vars

\* C24: connect() does not restore the retry budget: called with
\* reconnectAttempts at the maximum it creates a socket (unless construction
\* fails) and leaves the counter at the maximum; an abnormal close at the
\* maximum emits the terminal error at once and schedules nothing; the
\* counter goes down only in an open event, disconnect() and
\* resetReconnectAttempts(), and then to 0.
C24_ConnectKeepsBudget ==
    /\ [][(op'.name = "connect" /\ reconnectAttempts = maxReconnectAttempts) =>
             /\ reconnectAttempts' = maxReconnectAttempts
             /\ ~op'.scheduled
             /\ OwnedOpen \/ op'.created = 1
                  \/ op'.emitted = << <<"error", <<"construct failed">>>>, <<"error", MaxError>> >>]_vars
    /\ [][(op'.name = "connect" /\ ~op'.scheduled) =>
             reconnectAttempts' = reconnectAttempts]_vars
    /\ [](op.name = "onclose" /\ op.code # NORMAL_CLOSURE
             /\ op.before = maxReconnectAttempts =>
               /\ op.emitted = << <<"connected", <<"false">>>>, <<"error", MaxError>> >>
               /\ ~op.scheduled
               /\ reconnectAttempts = maxReconnectAttempts)
    /\ [][reconnectAttempts' < reconnectAttempts =>
             /\ op'.name \in {"onopen", "disconnect", "resetReconnectAttempts"}
             /\ reconnectAttempts' = 0]_vars

\* after the terminal error connect() is called with no reset, and the socket
\* it created closes abnormally before opening: terminal error again, nothing
\* scheduled
C24_Witness ==
    /\ refill = "denied"
    /\ op.name = "onclose" /\ op.code = 1006
    /\ op.before = maxReconnectAttempts
    /\ socket # 0 /\ ws[socket] = "CLOSED"
    /\ TerminalErrors(op) # {}
    /\ ~op.scheduled

CalledOf(o) == [i \in 1..Len(o.delivered) |-> o.delivered[i][1]]

\* C25: during the dispatch of one event every callback that was registered
\* for the event when the dispatch began is called exactly once (the calls are
\* the registrations, in order), also when a callback calls off(event, h) on
\* itself or on another callback of the event during the dispatch.
C25_DispatchSnapshot ==
    [][(op'.name = "onmessage" /\ op'.emitted # <<>>) =>
          CalledOf(op') = listeners[op'.emitted[1][1]]]_vars

\* C26: in the Index screen, after the user disconnects the car and then
\* connects again, a successful socket open sets carConnected to true and
\* carConnecting to false: the callbacks registered at mount still receive the
\* channel's events after a disconnect/connect cycle.
C26_ScreenReconnect ==
    (screen.mounted /\ screen.cycle = "reconnected" /\ op.name = "onopen") =>
        /\ screen.carConnected
        /\ ~screen.carConnecting
        /\ Len(op.delivered) = 1

StopFrames ==
    {Stringify(<<"command", "stop", "speed", ToString(n), "timestamp", "now">>) :
        n \in 0..MAX_SPEED}

\* C27: in the Index screen every movement command transmitted at the press of
\* a direction button is followed by a transmitted stop command at the release
\* of that button, whatever channel events (socket close, device_disconnected,
\* status update) come between press and release.
C27_StopOnRelease ==
    [][(screen'.ui = "pressOut" /\ screen.owed) =>
          (Len(op'.wire) = 1 /\ op'.wire[1] \in StopFrames)]_vars

\* C28: under any sequence of speed-decrement (-25), speed-increment (+25) and
\* text-entry actions in the Index screen motorSpeed stays an integer within
\* 0..255, and every command the screen passes to carSocket.sendCommand
\* carries a speed in 0..255 (the frame written has the documented shape and
\* the speed of the screen).
C28_MotorSpeedRange ==
    /\ screen.motorSpeed \in 0..MAX_SPEED
    /\ op.name = "sendCarCommand" =>
          \A i \in 1..Len(op.wire) :
              /\ op.wire[i] \in DocumentedFrames
              /\ Field(JSONParse(op.wire[i]).kv, "speed") = ToString(screen.motorSpeed)

\* the text 999 is entered and the speed is the maximum
C28_Witness ==
    /\ screen.ui = "speedText"
    /\ op.arg = <<"9", "9", "9">>
    /\ screen.motorSpeed = MAX_SPEED

\* the text -5 is entered and the speed is 0
C28_WitnessNegative ==
    /\ screen.ui = "speedText"
    /\ op.arg = <<"-", "5">>
    /\ screen.motorSpeed = 0

\* a command is sent with a speed that only the + button's clamp gives
C28_WitnessSent ==
    /\ screen.ui = "pressIn"
    /\ Len(op.wire) = 1
    /\ screen.motorSpeed = MAX_SPEED - 2 * SPEED_STEP

\* C29: after handleSave in the settings modal with production mode off and a
\* custom URL U entered, the provider's backendUrl settles to U: once the
\* storage writes started by the save have ended, backendUrl is U (the
\* continuation of setIsProduction has not replaced it by the default URL).
C29_SavedUrlSettles ==
    (settings.saved # <<>> /\ settings.pending = <<>>) => backendUrl = settings.saved

\* the trace of a sequence whose requests all succeed
RECURSIVE ExpectedLog(_)
ExpectedLog(commands) ==
    IF commands = <<>> THEN <<>>
    ELSE LET cmd == Head(commands)
         IN  << <<"post", cmd.command,
                  IF cmd.speed = <<>> THEN SEQUENCE_SPEED ELSE cmd.speed[1]>>,
                <<"ok">> >>
             \o (IF cmd.delay \notin {<<>>, <<0>>} THEN << <<"wait", cmd.delay[1]>> >> ELSE <<>>)
             \o ExpectedLog(Tail(commands))

\* C30: carApi.sendCommandSequence sends the listed commands one at a time in
\* list order, each with exactly the speed of its entry (speed 0 included),
\* 200 only when the entry omits speed; it waits an entry's delay before it
\* sends the next, and sends nothing after a command fails: what it has done
\* is always a prefix of post, ok, wait per entry, or such a prefix whose last
\* request failed.
C30_SequenceTrace ==
    LET E == ExpectedLog(api.commands)
    IN  \E n \in 0..Len(E) :
            \/ api.log = SubSeq(E, 1, n)
            \/ /\ n > 0
               /\ E[n] = <<"ok">>
               /\ api.log = SubSeq(E, 1, n - 1) \o << <<"fail">> >>

=============================================================================
